---- MODULE Spec2Model ----
(***************************************************************************)
(* Model of src/ass1.py (LinuxSystemAssistant): the two maintenance        *)
(* operations (run_system_update / run_system_cleanup and their worker     *)
(* threads) and the periodic poller (update_system_info).                  *)
(*                                                                         *)
(* Thread 0 is the presentation (Tk main-loop) thread; threads 1..MaxWorkers*)
(* are the worker threads created by threading.Thread(...).start().        *)
(* One action is one statement-level step of a worker, or one whole        *)
(* handler of the presentation thread.                                     *)
(***************************************************************************)
EXTENDS Integers, Sequences, FiniteSets, TLC

\* ---------------------------------------------------------------- bounds
MaxWorkers == 2      \* worker threads (button clicks) explored
MaxLines == 2        \* output lines one spawned process may write
MaxTicks == 3        \* poll ticks explored
ExtraTicks == 2      \* ticks explored beyond one full turnover of a history buffer
YearSpan == 4        \* years the calendar is moved away from the starting years
MaxParts == 2        \* partitions the OS may report

\* ------------------------------------------------------- program constants
HistoryLen == 60     \* [0] * 60
NORMAL == "normal"
DISABLED == "disabled"
None == -1           \* Python None as a return code (no exit status yet)

UIThread == 0
Workers == 1..MaxWorkers
Threads == {UIThread} \cup Workers

\* effective uids the process may run with (0 is root)
Euids == {0, 1000}
\* exit codes a spawned process may end with
ExitCodes == {0, 7}
\* utilisation percentages a sample may return
Percents == {10, 90}
\* the notebook's tabs: Dashboard, System Info, Disk Info, Calendar, Maintenance
Tabs == 0..4
\* exceptions a spawn (Popen / subprocess.run) may raise
SpawnErrors == {"FileNotFoundError"}
\* the exception classes that occur; all derive from Exception
Exceptions == SpawnErrors \cup {"CalledProcessError"}

\* the i-th raw line a process writes, as readline returns it
LineAt(i) == IF i % 2 = 1 THEN "a\n" ELSE " b \n"

\* str.strip() on the modelled lines
Strip(s) == IF s = "a\n" THEN "a" ELSE IF s = " b \n" THEN "b" ELSE ""

\* what a process may write before it closes its output: 0..MaxLines lines
OutputScripts == {[i \in 1..n |-> LineAt(i)] : n \in 0..MaxLines}

\* the command steps of each operation, in source order
Steps(o) ==
  IF o = "update" THEN <<"apt update", "apt upgrade">>
  ELSE <<"apt clean", "apt autoremove", "rm">>

\* the log line announcing step k of operation o
AnnounceMsg(o, k) ==
  IF o = "update"
  THEN (IF k = 1 THEN "Updating package lists..." ELSE "\nUpgrading packages...")
  ELSE (IF k = 1 THEN "Cleaning apt cache..."
        ELSE IF k = 2 THEN "\nRemoving unused packages..."
        ELSE "\nCleaning temporary files...")

ErrMsg(k) == IF k = 1 THEN "Error updating package lists." ELSE "Error upgrading packages."
SuccessMsg(o) ==
  IF o = "update" THEN "\nSystem update completed successfully!"
  ELSE "\nSystem cleanup completed successfully!"
StartMsg(o) ==
  IF o = "update" THEN "Starting system update...\n" ELSE "Starting system cleanup...\n"
PermMsg == "This operation requires root privileges. Please run with sudo."
ExcMsg(e) ==
  IF e = "FileNotFoundError" THEN "Unexpected error: FileNotFoundError"
  ELSE "Unexpected error: CalledProcessError"

VARIABLES
  update_button,          \* state of self.update_button
  cleanup_button,         \* state of self.cleanup_button
  log_text,               \* self.log_text: per inserting thread, its lines now in the widget
  widget_callers,         \* threads that have called a widget-mutating method
  euid,                   \* os.geteuid()
  spawned,                \* number of worker threads started so far
  pc,                     \* per worker: position in its thread function
  op,                     \* per worker: "update" / "cleanup" / "none"
  step,                   \* per worker: index of the current command step
  procs,                  \* per worker: the processes it spawned, in spawn order
  dialog,                 \* per worker: the modal dialog it is blocked in
  notified,               \* per worker: sequence of dialogs it has shown
  outcome,                \* per worker: what it reported
  raised,                 \* per worker: exception raised inside the try block
  escaped,                \* per worker: an exception left the thread function
  cpu_usage_history,
  memory_usage_history,
  ticks,                  \* completed runs of update_system_info
  pending,                \* pending self.after(...) callbacks
  selected_tab,           \* self.notebook.index(self.notebook.select())
  cpu_progress,           \* self.cpu_progress["value"]
  memory_progress,        \* self.memory_progress["value"]
  cpu_samples,            \* get_cpu_info calls made by the last tick
  window,                 \* the root window: "open" / "destroyed"
  current_year,           \* self.current_year
  current_month,          \* self.current_month
  last_nav,               \* the calendar button pressed last: "prev" / "next" / "none"
  nav_from,               \* <<year, month, press before>> as of just before the last press
  os_name,                \* os.name
  os_partitions,          \* psutil.disk_partitions(), in OS order
  disk_info,              \* what the last get_disk_info call returned
  disk_raised             \* the exception the last get_disk_info call raised ("uncalled" before)

maintVars == <<update_button, cleanup_button, log_text, widget_callers, euid, spawned,
               pc, op, step, procs, dialog, notified, outcome, raised, escaped>>
pollVars == <<cpu_usage_history, memory_usage_history, ticks, pending, selected_tab,
              cpu_progress, memory_progress, cpu_samples, window>>
calVars == <<current_year, current_month, last_nav, nav_from>>
diskVars == <<os_name, os_partitions, disk_info, disk_raised>>
otherVars == <<calVars, diskVars>>
vars == <<maintVars, pollVars, otherVars>>

InitMaint ==
  /\ update_button = NORMAL
  /\ cleanup_button = NORMAL
  /\ log_text = [t \in Threads |-> <<>>]
  /\ widget_callers = {}
  /\ euid \in Euids
  /\ spawned = 0
  /\ pc = [w \in Workers |-> "idle"]
  /\ op = [w \in Workers |-> "none"]
  /\ step = [w \in Workers |-> 0]
  /\ procs = [w \in Workers |-> <<>>]
  /\ dialog = [w \in Workers |-> "none"]
  /\ notified = [w \in Workers |-> <<>>]
  /\ outcome = [w \in Workers |-> "none"]
  /\ raised = [w \in Workers |-> "none"]
  /\ escaped = [w \in Workers |-> FALSE]

\* ------------------------------------------------------------- helpers
Alive(w) == pc[w] \notin {"idle", "done"}

\* a worker can take a step: it is started, not finished, not blocked in a dialog
CanStep(w, label) == pc[w] = label /\ dialog[w] = "none"

\* the `process` local of a worker: the process it spawned last
process(w) == procs[w][Len(procs[w])]

\* process.poll() / process.returncode: None until the process has exited
poll(p) == IF p.phase = "exited" THEN p.returncode ELSE None

\* os.geteuid() != 0 is the refusal test
IsRootAlways(uid) == TRUE
IsRoot(uid) == uid = 0

\* the exit test of the readline loop: output == '' and process.poll() is not None
LoopDoneNoPoll(output, polled) == output = ""
LoopDone(output, polled) == output = "" /\ polled # None

\* `except Exception as e` of the thread functions
OuterExceptOnlyCalled(e) == e = "CalledProcessError"
OuterExceptMatches(e) == e \in Exceptions

\* log_append(text) executed by thread t
LogAppend(t, text) ==
  /\ log_text' = [log_text EXCEPT ![t] = Append(@, text)]
  /\ widget_callers' = widget_callers \cup {t}

Goto(w, label) == pc' = [pc EXCEPT ![w] = label]

\* an exception e raised inside the try block of worker w
Raise(w, e) ==
  /\ raised' = [raised EXCEPT ![w] = e]
  /\ IF OuterExceptMatches(e) THEN Goto(w, "exc_log") ELSE Goto(w, "fin1")

\* messagebox.showerror / showinfo called by worker w: blocks until dismissed
ShowDialog(w, kind) ==
  /\ dialog' = [dialog EXCEPT ![w] = kind]
  /\ notified' = [notified EXCEPT ![w] = Append(@, kind)]

\* ------------------------------------------- presentation-thread handlers
\* run_system_update / run_system_cleanup: the command of an enabled button
StartOperation(o) ==
  /\ spawned < MaxWorkers
  /\ \A w \in Workers : dialog[w] = "none"
  /\ log_text' = [t \in Threads |-> IF t = UIThread THEN <<StartMsg(o)>> ELSE <<>>]
  /\ update_button' = DISABLED
  /\ cleanup_button' = DISABLED
  /\ widget_callers' = widget_callers \cup {UIThread}
  /\ spawned' = spawned + 1
  /\ pc' = [pc EXCEPT ![spawned + 1] = "check"]
  /\ op' = [op EXCEPT ![spawned + 1] = o]
  /\ UNCHANGED <<euid, step, procs, dialog, notified, outcome, raised, escaped, pollVars, otherVars>>

run_system_update ==
  /\ update_button = NORMAL
  /\ StartOperation("update")

run_system_cleanup ==
  /\ cleanup_button = NORMAL
  /\ StartOperation("cleanup")

\* the user dismisses the modal dialog a worker is blocked in
Dismiss(w) ==
  /\ dialog[w] # "none"
  /\ dialog' = [dialog EXCEPT ![w] = "none"]
  /\ UNCHANGED <<update_button, cleanup_button, log_text, widget_callers, euid, spawned,
                 pc, op, step, procs, notified, outcome, raised, escaped, pollVars, otherVars>>

\* --------------------------------------------------- spawned processes
\* a running process closes its output stream before it has exited
ProcClose(w, i) ==
  /\ i \in DOMAIN procs[w]
  /\ procs[w][i].phase = "running"
  /\ procs[w][i].piped
  /\ procs' = [procs EXCEPT ![w][i].phase = "closed"]
  /\ UNCHANGED <<update_button, cleanup_button, log_text, widget_callers, euid, spawned,
                 pc, op, step, dialog, notified, outcome, raised, escaped, pollVars, otherVars>>

\* a process exits with some code
ProcExit(w, i) ==
  /\ i \in DOMAIN procs[w]
  /\ procs[w][i].phase # "exited"
  /\ \E code \in ExitCodes :
       procs' = [procs EXCEPT ![w][i].phase = "exited", ![w][i].returncode = code]
  /\ UNCHANGED <<update_button, cleanup_button, log_text, widget_callers, euid, spawned,
                 pc, op, step, dialog, notified, outcome, raised, escaped, pollVars, otherVars>>

\* ------------------------------------------------------ worker threads
\* what a worker step leaves alone, apart from pc and what the step names
WorkerFrame == UNCHANGED <<euid, spawned, op, pollVars, otherVars>>

NewProcess(cmd, script, isPiped) ==
  [argv |-> cmd, phase |-> "running", out |-> script, returncode |-> None, piped |-> isPiped]

\* if os.geteuid() != 0:
CheckRoot(w) ==
  /\ CanStep(w, "check")
  /\ IF IsRoot(euid)
     THEN /\ Goto(w, "step_log")
          /\ step' = [step EXCEPT ![w] = 1]
     ELSE /\ Goto(w, "perm_log")
          /\ UNCHANGED step
  /\ UNCHANGED <<update_button, cleanup_button, log_text, widget_callers, procs, dialog,
                 notified, outcome, raised, escaped>>
  /\ WorkerFrame

\* self.log_append("This operation requires root privileges. ...")
PermLog(w) ==
  /\ CanStep(w, "perm_log")
  /\ LogAppend(w, PermMsg)
  /\ outcome' = [outcome EXCEPT ![w] = "permission_denied"]
  /\ Goto(w, "perm_dialog")
  /\ UNCHANGED <<update_button, cleanup_button, step, procs, dialog, notified, raised, escaped>>
  /\ WorkerFrame

\* messagebox.showerror("Permission Error", ...)
PermDialog(w) ==
  /\ CanStep(w, "perm_dialog")
  /\ ShowDialog(w, "error")
  /\ Goto(w, "early_en1")
  /\ UNCHANGED <<update_button, cleanup_button, log_text, widget_callers, step, procs,
                 outcome, raised, escaped>>
  /\ WorkerFrame

\* self.update_button.config(state=tk.NORMAL) before an early return
EarlyEnable1(w) ==
  /\ CanStep(w, "early_en1")
  /\ update_button' = NORMAL
  /\ widget_callers' = widget_callers \cup {w}
  /\ Goto(w, "early_en2")
  /\ UNCHANGED <<cleanup_button, log_text, step, procs, dialog, notified, outcome, raised,
                 escaped>>
  /\ WorkerFrame

\* self.cleanup_button.config(state=tk.NORMAL); return
EarlyEnable2(w) ==
  /\ CanStep(w, "early_en2")
  /\ cleanup_button' = NORMAL
  /\ widget_callers' = widget_callers \cup {w}
  /\ Goto(w, "fin1")
  /\ UNCHANGED <<update_button, log_text, step, procs, dialog, notified, outcome, raised,
                 escaped>>
  /\ WorkerFrame

\* self.log_append("Updating package lists...") and the like, before each step
StepLog(w) ==
  /\ CanStep(w, "step_log")
  /\ LogAppend(w, AnnounceMsg(op[w], step[w]))
  /\ IF Steps(op[w])[step[w]] = "rm" THEN Goto(w, "run_rm") ELSE Goto(w, "popen")
  /\ UNCHANGED <<update_button, cleanup_button, step, procs, dialog, notified, outcome,
                 raised, escaped>>
  /\ WorkerFrame

\* process = subprocess.Popen([...], stdout=PIPE, stderr=STDOUT, text=True)
Popen(w) ==
  /\ CanStep(w, "popen")
  /\ \/ \E script \in OutputScripts :
          /\ procs' = [procs EXCEPT ![w] =
                         Append(@, NewProcess(Steps(op[w])[step[w]], script, TRUE))]
          /\ Goto(w, "read")
          /\ UNCHANGED raised
     \/ \E e \in SpawnErrors :
          /\ Raise(w, e)
          /\ UNCHANGED procs
  /\ UNCHANGED <<update_button, cleanup_button, log_text, widget_callers, step, dialog,
                 notified, outcome, escaped>>
  /\ WorkerFrame

\* what follows the readline loop once it has ended with return code rc.
\* update: if process.returncode != 0: report the error, else go on;
\* cleanup: the next step follows unconditionally
AfterLoop(w, rc) ==
  IF op[w] = "update"
  THEN IF rc # 0
       THEN /\ Goto(w, "err_log")
            /\ UNCHANGED step
       ELSE IF step[w] = 1
            THEN /\ Goto(w, "step_log")
                 /\ step' = [step EXCEPT ![w] = 2]
            ELSE /\ Goto(w, "ok_log")
                 /\ UNCHANGED step
  ELSE /\ Goto(w, "step_log")
       /\ step' = [step EXCEPT ![w] = @ + 1]

\* one iteration of: while True: output = process.stdout.readline(); ...
\* readline blocks until a line or end-of-stream is there
Readline(w) ==
  /\ CanStep(w, "read")
  /\ LET p == process(w)
         output == IF p.out # <<>> THEN Head(p.out) ELSE ""
     IN /\ p.out # <<>> \/ p.phase # "running"
        /\ IF LoopDone(output, poll(p))
           THEN /\ AfterLoop(w, poll(p))
                /\ UNCHANGED <<log_text, widget_callers, procs>>
           ELSE /\ output # ""
                /\ LogAppend(w, Strip(output))
                /\ procs' = [procs EXCEPT ![w][Len(procs[w])].out = Tail(@)]
                /\ UNCHANGED <<pc, step>>
  /\ UNCHANGED <<update_button, cleanup_button, dialog, notified, outcome, raised, escaped>>
  /\ WorkerFrame

\* self.log_append("Error updating package lists.") / ("Error upgrading packages.")
ErrLog(w) ==
  /\ CanStep(w, "err_log")
  /\ LogAppend(w, ErrMsg(step[w]))
  /\ outcome' = [outcome EXCEPT ![w] = "failure"]
  /\ Goto(w, "err_dialog")
  /\ UNCHANGED <<update_button, cleanup_button, step, procs, dialog, notified, raised, escaped>>
  /\ WorkerFrame

\* messagebox.showerror("Update Error", ...): step 1 re-enables and returns
ErrDialog(w) ==
  /\ CanStep(w, "err_dialog")
  /\ ShowDialog(w, "error")
  /\ IF step[w] = 1 THEN Goto(w, "early_en1") ELSE Goto(w, "fin1")
  /\ UNCHANGED <<update_button, cleanup_button, log_text, widget_callers, step, procs,
                 outcome, raised, escaped>>
  /\ WorkerFrame

\* subprocess.run(["rm", "-rf", "/tmp/*"], check=True): spawn
RunRm(w) ==
  /\ CanStep(w, "run_rm")
  /\ \/ /\ procs' = [procs EXCEPT ![w] = Append(@, NewProcess("rm", <<>>, FALSE))]
        /\ Goto(w, "rm_wait")
        /\ UNCHANGED raised
     \/ \E e \in SpawnErrors :
          /\ Raise(w, e)
          /\ UNCHANGED procs
  /\ UNCHANGED <<update_button, cleanup_button, log_text, widget_callers, step, dialog,
                 notified, outcome, escaped>>
  /\ WorkerFrame

\* subprocess.run returns once rm has exited; check=True raises CalledProcessError
\* on a non-zero code, which the inner except catches:
\* self.log_append("Temporary files cleaned.") / ("Error cleaning temporary files.")
RmLog(w) ==
  /\ CanStep(w, "rm_wait")
  /\ process(w).phase = "exited"
  /\ LogAppend(w, IF poll(process(w)) = 0 THEN "Temporary files cleaned."
                  ELSE "Error cleaning temporary files.")
  /\ Goto(w, "ok_log")
  /\ UNCHANGED <<update_button, cleanup_button, step, procs, dialog, notified, outcome,
                 raised, escaped>>
  /\ WorkerFrame

\* self.log_append("\nSystem update completed successfully!") (or cleanup)
OkLog(w) ==
  /\ CanStep(w, "ok_log")
  /\ LogAppend(w, SuccessMsg(op[w]))
  /\ outcome' = [outcome EXCEPT ![w] = "success"]
  /\ Goto(w, "ok_dialog")
  /\ UNCHANGED <<update_button, cleanup_button, step, procs, dialog, notified, raised, escaped>>
  /\ WorkerFrame

\* messagebox.showinfo("Update Complete", ...) (or cleanup)
OkDialog(w) ==
  /\ CanStep(w, "ok_dialog")
  /\ ShowDialog(w, "info")
  /\ Goto(w, "fin1")
  /\ UNCHANGED <<update_button, cleanup_button, log_text, widget_callers, step, procs,
                 outcome, raised, escaped>>
  /\ WorkerFrame

\* except Exception as e: self.log_append(f"Unexpected error: {str(e)}")
ExcLog(w) ==
  /\ CanStep(w, "exc_log")
  /\ LogAppend(w, ExcMsg(raised[w]))
  /\ outcome' = [outcome EXCEPT ![w] = "exception"]
  /\ Goto(w, "exc_dialog")
  /\ UNCHANGED <<update_button, cleanup_button, step, procs, dialog, notified, raised, escaped>>
  /\ WorkerFrame

\* messagebox.showerror("Error", f"Unexpected error: {str(e)}")
ExcDialog(w) ==
  /\ CanStep(w, "exc_dialog")
  /\ ShowDialog(w, "error")
  /\ Goto(w, "fin1")
  /\ UNCHANGED <<update_button, cleanup_button, log_text, widget_callers, step, procs,
                 outcome, raised, escaped>>
  /\ WorkerFrame

\* finally: self.update_button.config(state=tk.NORMAL)
Finally1(w) ==
  /\ CanStep(w, "fin1")
  /\ update_button' = NORMAL
  /\ widget_callers' = widget_callers \cup {w}
  /\ Goto(w, "fin2")
  /\ UNCHANGED <<cleanup_button, log_text, step, procs, dialog, notified, outcome, raised,
                 escaped>>
  /\ WorkerFrame

\* finally: self.cleanup_button.config(state=tk.NORMAL); the thread function ends,
\* re-raising an exception the except clause did not match
Finally2(w) ==
  /\ CanStep(w, "fin2")
  /\ cleanup_button' = NORMAL
  /\ widget_callers' = widget_callers \cup {w}
  /\ escaped' = [escaped EXCEPT ![w] = raised[w] # "none" /\ ~OuterExceptMatches(raised[w])]
  /\ Goto(w, "done")
  /\ UNCHANGED <<update_button, log_text, step, procs, dialog, notified, outcome, raised>>
  /\ WorkerFrame

WorkerStep(w) ==
  \/ CheckRoot(w) \/ PermLog(w) \/ PermDialog(w) \/ EarlyEnable1(w) \/ EarlyEnable2(w)
  \/ StepLog(w) \/ Popen(w) \/ Readline(w)
  \/ ErrLog(w) \/ ErrDialog(w) \/ RunRm(w) \/ RmLog(w)
  \/ OkLog(w) \/ OkDialog(w) \/ ExcLog(w) \/ ExcDialog(w) \/ Finally1(w) \/ Finally2(w)

InitPoll ==
  /\ cpu_usage_history = [i \in 1..HistoryLen |-> 0]
  /\ memory_usage_history = [i \in 1..HistoryLen |-> 0]
  /\ ticks = 0
  /\ pending = 0
  /\ selected_tab = 0
  /\ cpu_progress = 0
  /\ memory_progress = 0
  /\ cpu_samples = 0
  /\ window = "open"

\* ------------------------------------------------------------ the poller
\* self.cpu_usage_history.pop(0); self.cpu_usage_history.append(v)
ShiftNoPop(h, v) == Append(h, v)
ShiftPopLast(h, v) == Append(SubSeq(h, 1, Len(h) - 1), v)
Shift(h, v) == Append(Tail(h), v)

\* self.after(self.update_interval, self.update_system_info): one more pending callback
ScheduleTwice(p) == p + 2
Schedule(p) == p + 1

\* an `after` callback is one-shot: firing removes it from the pending ones
Fire(p) == p - 1

\* update_system_info: c1, m1 are the samples taken by the handler itself,
\* c2, m2 the ones update_dashboard takes for the cards
Tick(c1, m1, c2, m2) ==
  /\ cpu_usage_history' = Shift(cpu_usage_history, c1)
  /\ memory_usage_history' = Shift(memory_usage_history, m1)
  /\ cpu_progress' = c2
  /\ memory_progress' = m2
  /\ cpu_samples' = IF selected_tab = 1 THEN 3 ELSE 2
  /\ ticks' = ticks + 1

\* __init__: self.update_system_info(), the direct first call; samples drawn from S
FirstUpdate(S) ==
  /\ ticks = 0
  /\ pending = 0
  /\ window = "open"
  /\ \E c1 \in S, m1 \in S, c2 \in S, m2 \in S : Tick(c1, m1, c2, m2)
  /\ pending' = Schedule(pending)
  /\ UNCHANGED <<selected_tab, window, maintVars, otherVars>>

\* the callback scheduled by self.after(...), run by the main loop while the
\* window exists; samples drawn from S
TimerUpdate(S, limit) ==
  /\ pending > 0
  /\ window = "open"
  /\ ticks < limit
  /\ \E c1 \in S, m1 \in S, c2 \in S, m2 \in S : Tick(c1, m1, c2, m2)
  /\ pending' = Schedule(Fire(pending))
  /\ UNCHANGED <<selected_tab, window, maintVars, otherVars>>

startup_update == FirstUpdate(Percents)

update_system_info == TimerUpdate(Percents, MaxTicks)

\* the same two handlers with the OS reporting the tick's ordinal as the
\* utilisation, so that every appended value is distinct
startup_numbered == FirstUpdate({ticks + 1})

update_numbered == TimerUpdate({ticks + 1}, HistoryLen + ExtraTicks)

\* the user selects a notebook tab
SelectTab(t) ==
  /\ window = "open"
  /\ selected_tab # t
  /\ selected_tab' = t
  /\ UNCHANGED <<cpu_usage_history, memory_usage_history, ticks, pending, cpu_progress,
                 memory_progress, cpu_samples, window, maintVars, otherVars>>

\* the user closes the window: no WM_DELETE_WINDOW handler is installed and no
\* after_cancel is called, so Tk destroys the root and mainloop() returns
close_window ==
  /\ window = "open"
  /\ ticks > 0
  /\ window' = "destroyed"
  /\ UNCHANGED <<cpu_usage_history, memory_usage_history, ticks, pending, selected_tab,
                 cpu_progress, memory_progress, cpu_samples, maintVars, otherVars>>

\* ---------------------------------------------------------- the calendar
\* datetime.now().year at start-up
StartYears == {2025, 2026}
FirstYear == 2025
LastYear == 2026

\* init_calendar_tab on one particular day
InitCalendar ==
  /\ current_year = LastYear
  /\ current_month = 11
  /\ last_nav = "none"
  /\ nav_from = <<LastYear, 11, "none">>

\* init_calendar_tab on any day of the starting years
InitCalendarAny ==
  /\ current_year \in StartYears
  /\ current_month \in 1..12
  /\ last_nav = "none"
  /\ nav_from = <<current_year, current_month, "none">>

\* self.current_month += 1; if self.current_month > 12: month = 1, year += 1
NextMonthNoYear(y, m) == IF m + 1 > 12 THEN <<y, 1>> ELSE <<y, m + 1>>
NextMonthOf(y, m) == IF m + 1 > 12 THEN <<y + 1, 1>> ELSE <<y, m + 1>>

\* self.current_month -= 1; if self.current_month < 1: month = 12, year -= 1
PrevMonthNoYear(y, m) == IF m - 1 < 1 THEN <<y, 12>> ELSE <<y, m - 1>>
PrevMonthOf(y, m) == IF m - 1 < 1 THEN <<y - 1, 12>> ELSE <<y, m - 1>>

Navigate(kind, to) ==
  /\ to[1] \in (FirstYear - YearSpan)..(LastYear + YearSpan)
  /\ current_year' = to[1]
  /\ current_month' = to[2]
  /\ last_nav' = kind
  /\ nav_from' = <<current_year, current_month, last_nav>>
  /\ UNCHANGED <<maintVars, pollVars, diskVars>>

prev_month == Navigate("prev", PrevMonthOf(current_year, current_month))

next_month == Navigate("next", NextMonthOf(current_year, current_month))

NextCalendar == prev_month \/ next_month

\* ------------------------------------------------------------ disk query
\* what psutil.disk_usage(mountpoint) does for a partition
UsageResults == {"ok", "PermissionError", "OSError"}
\* a reported partition: its usage behaviour, and whether 'cdrom' is in its
\* opts or its fstype is empty
PartitionKinds == [usage : UsageResults, removable : BOOLEAN]
PartitionLists == UNION {[1..n -> PartitionKinds] : n \in 0..MaxParts}

InitDisk ==
  /\ os_name = "posix"
  /\ os_partitions = <<>>
  /\ disk_info = <<>>
  /\ disk_raised = "uncalled"

InitDiskAny ==
  /\ os_name \in {"posix", "nt"}
  /\ os_partitions \in PartitionLists
  /\ disk_info = <<>>
  /\ disk_raised = "uncalled"

\* if os.name == 'nt' and ('cdrom' in partition.opts or partition.fstype == ''): continue
SkippedOnNt(name, part) == name = "nt" /\ part.removable

\* except PermissionError: continue
CaughtNothing(err) == FALSE
CaughtPermission(err) == err = "PermissionError"

\* the loop of get_disk_info from partition i on, acc being the list built so
\* far; a partition is recorded by its position in the OS list
RECURSIVE DiskLoop(_, _, _, _)
DiskLoop(name, parts, i, acc) ==
  IF i > Len(parts) THEN [result |-> acc, raised |-> "none"]
  ELSE IF SkippedOnNt(name, parts[i]) THEN DiskLoop(name, parts, i + 1, acc)
  ELSE IF parts[i].usage = "ok" THEN DiskLoop(name, parts, i + 1, Append(acc, i))
  ELSE IF CaughtPermission(parts[i].usage) THEN DiskLoop(name, parts, i + 1, acc)
  ELSE [result |-> <<>>, raised |-> parts[i].usage]

get_disk_info ==
  /\ LET r == DiskLoop(os_name, os_partitions, 1, <<>>)
     IN /\ disk_info' = r.result
        /\ disk_raised' = r.raised
  /\ UNCHANGED <<os_name, os_partitions, maintVars, pollVars, calVars>>

\* the OS reports a different set of partitions (mount / unmount)
Remount ==
  /\ \E parts \in PartitionLists :
       /\ parts # os_partitions
       /\ os_partitions' = parts
  /\ disk_raised # "uncalled"
  /\ disk_info' = <<>>
  /\ disk_raised' = "uncalled"
  /\ UNCHANGED <<os_name, maintVars, pollVars, calVars>>

NextDisk == get_disk_info \/ Remount

Init == InitMaint /\ InitPoll /\ InitCalendar /\ InitDisk

Next ==
  \/ run_system_update
  \/ run_system_cleanup
  \/ \E w \in Workers : Dismiss(w)
  \/ \E w \in Workers : WorkerStep(w)
  \/ \E w \in Workers : \E i \in 1..3 : ProcClose(w, i)
  \/ \E w \in Workers : \E i \in 1..3 : ProcExit(w, i)

Spec == Init /\ [][Next]_vars

\* Operations started one after the other: the user presses a button only when
\* no worker thread is alive (each operation runs as the buttons intend it to).
NoWorkerAlive == \A w \in Workers : ~Alive(w)

update_when_idle == NoWorkerAlive /\ run_system_update

cleanup_when_idle == NoWorkerAlive /\ run_system_cleanup

NextSerial ==
  \/ update_when_idle
  \/ cleanup_when_idle
  \/ \E w \in Workers : Dismiss(w)
  \/ \E w \in Workers : WorkerStep(w)
  \/ \E w \in Workers : \E i \in 1..3 : ProcClose(w, i)
  \/ \E w \in Workers : \E i \in 1..3 : ProcExit(w, i)

SpecSerial == Init /\ [][NextSerial]_vars

NextPoll ==
  \/ startup_update
  \/ update_system_info
  \/ \E t \in Tabs : SelectTab(t)
  \/ close_window

SpecPoll == Init /\ [][NextPoll]_vars

\* the window as constructed on any day of the starting years
CalendarInit ==
  /\ InitMaint
  /\ InitPoll
  /\ InitCalendarAny
  /\ InitDisk

SpecCalendar == CalendarInit /\ [][NextCalendar]_vars

\* the window as constructed on any machine
DiskInit ==
  /\ InitMaint
  /\ InitPoll
  /\ InitCalendar
  /\ InitDiskAny

SpecDisk == DiskInit /\ [][NextDisk]_vars

NextFifo ==
  \/ startup_numbered
  \/ update_numbered
  \/ \E t \in Tabs : SelectTab(t)

SpecFifo == Init /\ [][NextFifo]_vars

\* ================================================================ claims

\* C1: at most one maintenance worker is alive at any time; a click while a
\* worker is alive starts no second worker.
C1_AtMostOneWorkerAlive == Cardinality({w \in Workers : Alive(w)}) <= 1

\* C2: within an operation, a step that exited non-zero is never followed by a
\* later step: every process a worker spawned before its latest one exited 0.
C2_AbortOnFailure ==
  \A w \in Workers : \A i \in DOMAIN procs[w] :
    i < Len(procs[w]) => procs[w][i].returncode = 0

\* C3: a finished operation reported success iff every one of its steps ran
\* and exited with code 0.
AllStepsSucceeded(w) ==
  /\ Len(procs[w]) = Len(Steps(op[w]))
  /\ \A i \in DOMAIN procs[w] : procs[w][i].returncode = 0
C3_SuccessIffAllStepsZero ==
  \A w \in Workers :
    pc[w] = "done" => ((outcome[w] = "success") <=> AllStepsSucceeded(w))

\* C4: without root the privilege check comes first: no worker ever spawns a
\* process or raises, nothing is logged or shown before the check, and a
\* finished operation has the permission-denied outcome with its one error dialog.
C4_NoSpawnWithoutPrivilege ==
  euid # 0 =>
    \A w \in Workers :
      /\ procs[w] = <<>>
      /\ step[w] = 0
      /\ pc[w] = "check" => (log_text[w] = <<>> /\ notified[w] = <<>>)
      /\ pc[w] \in {"perm_dialog", "early_en1", "early_en2", "fin1", "fin2", "done"}
           => outcome[w] = "permission_denied"
      /\ pc[w] = "done" => notified[w] = <<"error">>
C4_Witness ==
  /\ euid # 0
  /\ \E w \in Workers : pc[w] = "done" /\ outcome[w] = "permission_denied"

\* C5: whenever a worker thread is alive, both buttons are disabled.
C5_ButtonsDisabledWhileAlive ==
  (\E w \in Workers : Alive(w)) => (update_button = DISABLED /\ cleanup_button = DISABLED)

\* C6: at the step in which a worker finishes, both buttons are enabled.
C6_ButtonsEnabledAtFinish ==
  [][\A w \in Workers :
       (pc[w] # "done" /\ pc'[w] = "done")
         => (update_button' = NORMAL /\ cleanup_button' = NORMAL)]_vars

\* C7: only the presentation thread calls the methods that change the log
\* widget or the buttons.
C7_OnlyUIThreadMutates == widget_callers \subseteq {UIThread}

\* C8: a worker's processes are its operation's steps in declared order, and
\* every process but the latest has exited: at most one is alive at a time.
C8_SequentialSteps ==
  \A w \in Workers : \A i \in DOMAIN procs[w] :
    /\ i <= Len(Steps(op[w]))
    /\ procs[w][i].argv = Steps(op[w])[i]
    /\ i < Len(procs[w]) => procs[w][i].phase = "exited"
C8_Witness ==
  \E w \in Workers :
    /\ op[w] = "cleanup"
    /\ Len(procs[w]) = 3
    /\ procs[w][3].phase = "running"

\* C9: an exception raised in a worker is caught there: the worker goes to the
\* handler, appends the exception's message to the log, shows one error dialog,
\* re-enables both buttons in its finally block, and ends with the failure
\* outcome; the exception never leaves the thread function.
C9_StatePart ==
  \A w \in Workers :
    raised[w] # "none" =>
      /\ ~escaped[w]
      /\ pc[w] \in {"exc_log", "exc_dialog", "fin1", "fin2", "done"}
      /\ pc[w] # "exc_log" => outcome[w] = "exception"
      /\ pc[w] \in {"fin1", "fin2", "done"} => notified[w] = <<"error">>
C9_StepPart ==
  \A w \in Workers :
    raised[w] # "none" =>
      /\ (pc[w] = "exc_log" /\ pc'[w] # "exc_log")
           => log_text'[w] = Append(log_text[w], ExcMsg(raised[w]))
      /\ (pc[w] = "fin1" /\ pc'[w] # "fin1") => update_button' = NORMAL
      /\ (pc[w] = "fin2" /\ pc'[w] # "fin2") => (cleanup_button' = NORMAL /\ pc'[w] = "done")
C9_ExceptionCaught == []C9_StatePart /\ [][C9_StepPart]_vars
C9_Witness ==
  \E w \in Workers : raised[w] # "none" /\ pc[w] = "done" /\ outcome[w] = "exception"

\* C10: both history buffers have length exactly 60 in every state.
C10_HistoryLength ==
  /\ Len(cpu_usage_history) = HistoryLen
  /\ Len(memory_usage_history) = HistoryLen
C10_Witness ==
  /\ ticks >= 2
  /\ cpu_usage_history[HistoryLen] = 90
  /\ memory_usage_history[HistoryLen - 1] = 90


\* C11: each tick shifts both buffers by one: the retained values move one index
\* down in the same order and the sampled value is appended; so the value
\* appended at tick t is at index 0 after 59 further ticks and gone after 60.
\* (Tick t appends the value t here, and indexes count from 1.)
ExpectedAt(i) == IF ticks - HistoryLen + i >= 1 THEN ticks - HistoryLen + i ELSE 0
C11_StatePart ==
  \A i \in 1..HistoryLen :
    /\ cpu_usage_history[i] = ExpectedAt(i)
    /\ memory_usage_history[i] = ExpectedAt(i)
C11_StepPart ==
  ticks' = ticks + 1 =>
    /\ \A i \in 1..(HistoryLen - 1) :
         /\ cpu_usage_history'[i] = cpu_usage_history[i + 1]
         /\ memory_usage_history'[i] = memory_usage_history[i + 1]
    /\ cpu_usage_history'[HistoryLen] = ticks'
    /\ memory_usage_history'[HistoryLen] = ticks'
C11_FifoShift == []C11_StatePart /\ [][C11_StepPart]_vars
C11_Witness ==
  /\ ticks = HistoryLen + 1
  /\ cpu_usage_history[1] = 2
  /\ memory_usage_history[HistoryLen] = HistoryLen + 1

\* C12: at most one wake-up is pending in every state, and every completed
\* tick leaves exactly one pending.
C12_StatePart ==
  /\ pending <= 1
  /\ ticks > 0 => pending = 1
C12_OnePendingWakeup == []C12_StatePart /\ [][ticks' = ticks + 1 => pending' = 1]_vars
C12_Witness == ticks >= 2 /\ pending = 1

\* C13: once the window is closed, no wake-up remains pending.
C13_ClosedMeansUnscheduled == window = "destroyed" => pending = 0

\* C14: after a tick, the value the dashboard shows is the last element of the
\* history buffer, for CPU and for memory.
C14_ShownIsLastSample ==
  ticks > 0 =>
    /\ cpu_progress = cpu_usage_history[HistoryLen]
    /\ memory_progress = memory_usage_history[HistoryLen]

\* C18: a tick makes at most one blocking get_cpu_info call, whichever tab is
\* selected.
C18_OneCpuSamplePerTick == cpu_samples <= 1


\* C15: the lines of a command reach the log one at a time in the order
\* written; the worker leaves the read loop only when the stream is at its end
\* and the process has exited; and the real exit code decides the step: an
\* operation with a step that exited non-zero ends as a failure, one whose steps
\* all exited 0 ends as a success.
StepFailed(w) == \E i \in DOMAIN procs[w] : procs[w][i].returncode \notin {0, None}
C15_StatePart ==
  \A w \in Workers :
    /\ \A i \in DOMAIN procs[w] :
         (i < Len(procs[w]) \/ pc[w] # "read")
           => (procs[w][i].piped => (procs[w][i].out = <<>> /\ procs[w][i].phase = "exited"))
    /\ (pc[w] = "done" /\ StepFailed(w)) => outcome[w] = "failure"
    /\ (pc[w] = "done" /\ AllStepsSucceeded(w)) => outcome[w] = "success"
C15_StepPart ==
  \A w \in Workers :
    (pc[w] = "read" /\ procs'[w] # procs[w] /\ process(w).out # <<>>
       /\ Len(procs'[w]) = Len(procs[w])
       /\ procs'[w][Len(procs[w])].out # process(w).out)
      => /\ log_text'[w] = Append(log_text[w], Strip(Head(process(w).out)))
         /\ procs'[w][Len(procs[w])].out = Tail(process(w).out)
C15_StreamThenClassify == []C15_StatePart /\ [][C15_StepPart]_vars

\* C16: an operation that ended in failure (no privilege, a step that exited
\* non-zero, or an exception) has logged a line describing the failure and shown
\* exactly one modal dialog; once no worker is running both buttons are enabled.
OperationFailed(w) == euid # 0 \/ raised[w] # "none" \/ StepFailed(w)
FailureLogged(w) ==
  \/ outcome[w] \in {"permission_denied", "failure", "exception"}
  \/ /\ Len(procs[w]) = 3
     /\ procs[w][3].returncode \notin {0, None}
     /\ \A i \in 1..2 : procs[w][i].returncode = 0
C16_FailureIsReported ==
  \A w \in Workers :
    (pc[w] = "done" /\ OperationFailed(w)) =>
      /\ FailureLogged(w)
      /\ Len(notified[w]) = 1
      /\ NoWorkerAlive => (update_button = NORMAL /\ cleanup_button = NORMAL)

\* C17: get_disk_info never raises a permission error; unless some queried
\* partition fails in another way it returns, in OS order, exactly the
\* partitions whose usage query succeeded (those skipped on Windows aside), so
\* never more entries than the OS reported.
Queried(i) == ~SkippedOnNt(os_name, os_partitions[i])
C17_PermissionErrorsSkipped ==
  disk_raised # "uncalled" =>
    /\ disk_raised # "PermissionError"
    /\ (\A i \in DOMAIN os_partitions : Queried(i) => os_partitions[i].usage # "OSError")
         => disk_raised = "none"
    /\ disk_raised = "none" =>
         /\ Len(disk_info) <= Len(os_partitions)
         /\ \A k \in DOMAIN disk_info : disk_info[k] \in DOMAIN os_partitions
         /\ \A k \in DOMAIN disk_info : \A l \in DOMAIN disk_info :
              k < l => disk_info[k] < disk_info[l]
         /\ {disk_info[k] : k \in DOMAIN disk_info}
              = {i \in DOMAIN os_partitions : Queried(i) /\ os_partitions[i].usage = "ok"}
\* C17, read for every platform: every partition but the
\* permission-denied ones is returned.
C17_AllOthersReturned ==
  disk_raised = "none" =>
    /\ Len(disk_info) <= Len(os_partitions)
    /\ {disk_info[k] : k \in DOMAIN disk_info}
         = {i \in DOMAIN os_partitions : os_partitions[i].usage # "PermissionError"}
C17_Witness ==
  /\ disk_raised = "none"
  /\ Len(os_partitions) = 2
  /\ os_partitions[1].usage = "PermissionError"
  /\ Queried(1)
  /\ disk_info = <<2>>

\* C19: the month stays in 1..12; next_month from December gives January of the
\* next year, prev_month from January gives December of the year before, and
\* every other press moves the month by one and leaves the year alone.
C19_StepPart ==
  /\ last_nav' = "next" =>
       IF current_month = 12
       THEN current_month' = 1 /\ current_year' = current_year + 1
       ELSE current_month' = current_month + 1 /\ current_year' = current_year
  /\ last_nav' = "prev" =>
       IF current_month = 1
       THEN current_month' = 12 /\ current_year' = current_year - 1
       ELSE current_month' = current_month - 1 /\ current_year' = current_year
C19_MonthInRange == [](current_month \in 1..12) /\ [][C19_StepPart]_vars
C19_Witness ==
  /\ last_nav = "next"
  /\ current_month = 1
  /\ nav_from[2] = 12
  /\ current_year = nav_from[1] + 1

\* C20: a press of one calendar button right after a press of the other
\* restores the year and month shown before the two presses.
C20_StepPart ==
  ((last_nav = "next" /\ last_nav' = "prev") \/ (last_nav = "prev" /\ last_nav' = "next"))
    => (current_year' = nav_from[1] /\ current_month' = nav_from[2])
C20_Inverses == [][C20_StepPart]_vars
C20_Witness ==
  /\ last_nav = "prev"
  /\ nav_from[3] = "next"
  /\ nav_from[2] = 1
  /\ current_month = 12
  /\ current_year = nav_from[1] - 1

====
